---------------------------- MODULE Spec2Model ----------------------------
(***************************************************************************)
(* Model of explorerFontEditor.cpp (Windhawk mod "Fix w11 Explorer Font"). *)
(*                                                                         *)
(* Three specifications share the module:                                  *)
(*   Spec      - the mod loaded into the host: Wh_ModInit, the two         *)
(*               DrawText hooks running on several threads (re-entrantly), *)
(*               and Wh_ModSettingsChanged reloading the globals.          *)
(*   SpecFn    - the pure helpers applied to enumerated inputs.            *)
(*   SpecGuard - the operations the util::raii class type permits.         *)
(***************************************************************************)
EXTENDS Integers, Sequences, FiniteSets, TLC

VARIABLES
    s_font_name,      \* util::s_font_name: the configured face name (code units)
    s_custom_color,   \* util::s_custom_color
    s_text_r,         \* util::s_text_r
    s_text_g,         \* util::s_text_g
    s_text_b,         \* util::s_text_b
    store,            \* the settings store read by Wh_GetIntSetting / StringSetting::make
    loaded,           \* history: the store snapshots update_settings has begun to load
    lpc,              \* position of the loader thread (Wh_ModInit / Wh_ModSettingsChanged)
    reloads,          \* number of Wh_ModSettingsChanged calls so far
    lmode,            \* which entry point runs update_settings: "init" or "changed"
    target,           \* addresses GetProcAddress returned for DrawTextW / DrawTextExW
    registered,       \* Wh_SetFunctionHook requests made: set of [kind, addr]
    initResult,       \* value returned by Wh_ModInit ("none" until it returns)
    dc,               \* per thread: the device context the host draws with
    fontLive,         \* handles of the font objects that exist
    fontDesc,         \* LOGFONTW of every font object ever created (by handle)
    fontOwner,        \* call that created each font (0: the host)
    stack,            \* per thread: the frames of the intercepted calls in flight
    calls,            \* number of intercepted calls begun so far
    last,             \* per thread: summary of the most recently returned call
    releases,         \* history: [font, by] for every DeleteObject on a live font
    selects,          \* history: [font, by] for every SelectObject the hooks made
    fn,               \* SpecFn: the last helper application [op, in, out]
    guards,           \* SpecGuard: the raii objects
    relCount          \* SpecGuard: times Fn was invoked on each handle

vars == << s_font_name, s_custom_color, s_text_r, s_text_g, s_text_b, store,
           loaded, lpc, lmode, reloads, target, registered, initResult, dc, fontLive,
           fontDesc, fontOwner, stack, calls, last, releases, selects, fn,
           guards, relCount >>

modVars == << s_font_name, s_custom_color, s_text_r, s_text_g, s_text_b, store,
              loaded, lpc, lmode, reloads, target, registered, initResult, dc, fontLive,
              fontDesc, fontOwner, stack, calls, last, releases, selects >>

pureVars == << fn, guards, relCount >>

-----------------------------------------------------------------------------
(* Bounds of the model.                                                    *)

MaxCalls    == 2     \* intercepted calls begun in one behaviour
MaxDepth    == 2     \* nesting depth of intercepted calls on one thread
MaxReloads  == 1     \* settings changes signalled in one behaviour
MaxNameLen  == 33    \* longest configured face name enumerated in SpecFn
MaxChain    == 5     \* longest window ancestor chain enumerated in SpecFn
MaxGuards   == 3     \* raii objects in SpecGuard
MaxRelease  == 3     \* cap of the release counter in SpecGuard

(* Program constants.                                                      *)

LF_FACESIZE  == 32   \* WCHAR units of LOGFONTW::lfFaceName
SizeofWCHAR  == 2    \* sizeof(decltype(font_name)::value_type)
MaxNameFit   == 31   \* font_name.size() <= 31
ParentLevels == 3    \* for (int i = 0; i < 3; i++)

-----------------------------------------------------------------------------
(* Face names as sequences of UTF-16 code units.                           *)

NoneName  == << 78, 111, 110, 101 >>                       \* L"None"
ArialName == << 65, 114, 105, 97, 108 >>                   \* L"Arial"
SegoeVariableName ==                                       \* L"Segoe UI Variable Text"
    << 83, 101, 103, 111, 101, 32, 85, 73, 32, 86, 97, 114, 105, 97, 98, 108,
       101, 32, 84, 101, 120, 116 >>

\* A name of n units, all of them unit c.
Rep(n, c) == [i \in 1..n |-> c]

\* A NUL-terminated name laid out in the 32-unit lfFaceName field.
PadFace(name) ==
    [i \in 1..LF_FACESIZE |-> IF i <= Len(name) THEN name[i] ELSE 0]

ZeroFace == [i \in 1..LF_FACESIZE |-> 0]

\* std::memset(dst, 0, nbytes) on an array of 16-bit units (little endian).
memset0(dst, nbytes) ==
    [i \in DOMAIN dst |->
        IF SizeofWCHAR * i <= nbytes THEN 0
        ELSE IF SizeofWCHAR * i - 1 <= nbytes THEN (dst[i] \div 256) * 256
        ELSE dst[i]]

\* std::memcpy(dst, src, nbytes) on arrays of 16-bit units; nbytes is a
\* multiple of the unit size at the only call site.
memcpy(dst, src, nbytes) ==
    [i \in DOMAIN dst |->
        IF SizeofWCHAR * i <= nbytes THEN src[i] ELSE dst[i]]

\* change_font_in_struct with the size test off by one (size() <= 32).
change_font_in_struct_fit_32(face, font_name) ==
    IF font_name # NoneName
    THEN IF Len(font_name) <= MaxNameFit + 1
         THEN [face |-> memcpy(memset0(face, LF_FACESIZE), font_name,
                               Len(font_name) * SizeofWCHAR),
               diag |-> 0]
         ELSE [face |-> face, diag |-> 1]
    ELSE [face |-> face, diag |-> 0]

\* util::change_font_in_struct applied to the lfFaceName field `face`, with
\* font_name the wstring_view taken of s_font_name.  Yields the field and the
\* number of Wh_Log diagnostics emitted.
change_font_in_struct(face, font_name) ==
    IF font_name # NoneName
    THEN IF Len(font_name) <= MaxNameFit
         THEN [face |-> memcpy(memset0(face, LF_FACESIZE), font_name,
                               Len(font_name) * SizeofWCHAR),
               diag |-> 0]
         ELSE [face |-> face, diag |-> 1]
    ELSE [face |-> face, diag |-> 0]

-----------------------------------------------------------------------------
(* Colors: COLORREF is 0x00BBGGRR.                                          *)

RGB(r, g, b) == r + g * 256 + b * 65536
GetRValue(c) == c % 256
GetGValue(c) == (c \div 256) % 256
GetBValue(c) == (c \div 65536) % 256

\* The channels saturated to 0..255 instead of masked.
get_custom_text_color_clamped(r, g, b) ==
    LET clamp(x) == IF x < 0 THEN 0 ELSE IF x > 255 THEN 255 ELSE x
    IN  clamp(r) + clamp(g) * 256 + clamp(b) * 65536

\* util::get_custom_text_color on the three channel values it read:
\* static_cast<uint8_t>(x & 0xff) keeps the low 8 bits (two's complement).
get_custom_text_color(r, g, b) == RGB(r % 256, g % 256, b % 256)

\* The threshold test not strict (brightness >= 128).
is_light_background_at_least(bg_color) ==
    LET r == bg_color % 256
        g == (bg_color \div 256) % 256
        b == (bg_color \div 65536) % 256
        brightness == (r * 299 + g * 587 + b * 114) \div 1000
    IN  brightness >= 128

\* util::is_light_background on the value GetBkColor returned.
is_light_background(bg_color) ==
    LET r == GetRValue(bg_color)
        g == GetGValue(bg_color)
        b == GetBValue(bg_color)
        brightness == (r * 299 + g * 587 + b * 114) \div 1000
    IN  brightness > 128

-----------------------------------------------------------------------------
(* Windows: a device context's window is given as the chain of class names *)
(* << class of WindowFromDC(hdc), class of its parent, grandparent, ... >>; *)
(* the empty chain is a device context without a window.                   *)

ListClasses == { "DirectUIHWND", "SysListView32" }
ShellViewClass == "SHELLDLL_DefView"
WindowClasses == ListClasses \cup { ShellViewClass, "CabinetWClass" }

\* The loop with its bound off by one (i <= 3): four parent links followed.
RECURSIVE parent_walk_one_more(_, _, _)
parent_walk_one_more(chain, pos, i) ==
    IF i <= ParentLevels
    THEN IF pos + 1 > Len(chain)
         THEN FALSE
         ELSE IF chain[pos + 1] = ShellViewClass
              THEN TRUE
              ELSE parent_walk_one_more(chain, pos + 1, i + 1)
    ELSE FALSE

\* The loop of is_explorer_file_view: `pos` is the index of `parent` in the
\* chain, i the loop counter.
RECURSIVE parent_walk(_, _, _)
parent_walk(chain, pos, i) ==
    IF i < ParentLevels
    THEN IF pos + 1 > Len(chain)
         THEN FALSE                                   \* GetParent: NULL, break
         ELSE IF chain[pos + 1] = ShellViewClass
              THEN TRUE
              ELSE parent_walk(chain, pos + 1, i + 1)
    ELSE FALSE

\* util::is_explorer_file_view.
is_explorer_file_view(chain) ==
    IF Len(chain) = 0
    THEN FALSE                                        \* WindowFromDC: NULL
    ELSE IF chain[1] \in ListClasses
         THEN TRUE
         ELSE parent_walk(chain, 1, 0)

-----------------------------------------------------------------------------
(* The environment of the main specification.                              *)

Threads == { 1, 2 }
Kinds == { "basic", "ext" }          \* DrawTextW / DrawTextExW

NullHandle == 0
StockFont(t) == 0 - t                \* the font the host selected into dc[t]
GarbageUnit == 65533                 \* a unit read from freed storage

\* LOGFONTW: the face-name field and the attributes passed through.
StockDesc == [face |-> PadFace(SegoeVariableName), height |-> 12, weight |-> 400]
ZeroDesc  == [face |-> ZeroFace, height |-> 0, weight |-> 0]      \* LOGFONTW{0}

LongName == Rep(MaxNameFit + 1, 88)

\* Snapshots the settings store can hold.
CfgDefault == [name |-> NoneName, customColor |-> 1,
               textR |-> 255, textG |-> 255, textB |-> 255]
CfgRed     == [name |-> ArialName, customColor |-> 1,
               textR |-> 255, textG |-> 0, textB |-> 0]
CfgLong    == [name |-> LongName, customColor |-> 0,
               textR |-> 0, textG |-> 128, textB |-> 64]
Configs == { CfgDefault, CfgRed, CfgLong }

\* Drawing surfaces of the host: background color and window chain.
DcDarkList  == [bkColor |-> RGB(32, 32, 32),
                window |-> << "DirectUIHWND", ShellViewClass >>]
DcLightList == [bkColor |-> RGB(255, 255, 255),
                window |-> << "SysListView32" >>]
DcDarkOther == [bkColor |-> RGB(0, 0, 0),
                window |-> << "CabinetWClass" >>]
DcKinds == { DcDarkList, DcLightList, DcDarkOther }

HostTextColor == RGB(0, 0, 0)

\* Arguments the host passes: text, length, rectangle, format flags and, for
\* the extended entry point, the DRAWTEXTPARAMS block.
\* Every call draws its own text: call number id passes text "id" units long.
ArgsOf(kind, id) ==
    [lpchText |-> Rep(id, 97), cchText |-> id, lprc |-> "rc", format |-> 0,
     lpdtp |-> IF kind = "ext" THEN "dtp" ELSE "n/a"]

\* Values an original DrawText can return (0: failure).
RetVals == { 0, 16 }

AddrOf(kind) == IF kind = "basic" THEN 7001 ELSE 7002

-----------------------------------------------------------------------------
(* Frames of the intercepted calls.                                        *)

Top(t) == stack[t][Len(stack[t])]
InFlight(t) == Len(stack[t]) > 0
AtPc(t, p) == InFlight(t) /\ Top(t).pc = p

SetTop(t, f) == [stack EXCEPT ![t] = [@ EXCEPT ![Len(@)] = f]]

NewFrame(id, kind, args, t) ==
    [ id |-> id, kind |-> kind, args |-> args, pc |-> "entry",
      entryFont |-> dc[t].font, entryColor |-> dc[t].textColor,
      h_font |-> NullHandle, got |-> FALSE, read_desc |-> ZeroDesc,
      font |-> ZeroDesc,
      font_name |-> << >>, nameFreed |-> FALSE, diag |-> 0,
      createCalls |-> 0, created |-> {}, h_new_font |-> NullHandle,
      read |-> {},
      seen |-> [name |-> << >>, enabled |-> FALSE, r |-> 0, g |-> 0, b |-> 0],
      light |-> FALSE, fileView |-> FALSE, colorSet |-> FALSE,
      delegated |-> << >>, colorAtDelegate |-> 0, fontAtDelegate |-> NullHandle,
      origRet |-> << >>, ret |-> << >>, relCalls |-> 0, relArgs |-> << >>,
      released |-> {} ]

\* A hook takes effect once Wh_ModInit has returned TRUE and its target
\* address was a function.
HookActive(kind) == initResult = "TRUE" /\ target[kind] # NullHandle

-----------------------------------------------------------------------------
(* The loader thread: Wh_ModInit and Wh_ModSettingsChanged.                *)

\* Wh_ModInit, up to its call of util::update_settings.
Wh_ModInit ==
    /\ lpc = "start"
    /\ lpc' = "upd_name"
    /\ lmode' = "init"
    /\ UNCHANGED pureVars
    /\ UNCHANGED << s_font_name, s_custom_color, s_text_r, s_text_g, s_text_b,
                    store, loaded, reloads, target, registered, initResult, dc,
                    fontLive, fontDesc, fontOwner, stack, calls, last, releases,
                    selects >>

\* Wh_ModSettingsChanged: the user saved snapshot c; update_settings begins.
Wh_ModSettingsChanged(c) ==
    /\ lpc = "idle"
    /\ initResult = "TRUE"
    /\ reloads < MaxReloads
    /\ reloads' = reloads + 1
    /\ store' = c
    /\ lpc' = "upd_name"
    /\ lmode' = "changed"
    /\ UNCHANGED pureVars
    /\ UNCHANGED << s_font_name, s_custom_color, s_text_r, s_text_g, s_text_b,
                    loaded, target, registered, initResult, dc, fontLive,
                    fontDesc, fontOwner, stack, calls, last, releases, selects >>

\* Frames that hold a wstring_view of the storage s_font_name owns and have
\* not finished reading it: the assignment frees that storage.
FreeNameStorage(stk) ==
    [t \in Threads |->
        [i \in DOMAIN stk[t] |->
            IF stk[t][i].pc = "change_font"
            THEN [stk[t][i] EXCEPT !.nameFreed = TRUE]
            ELSE stk[t][i]]]

\* update_settings, line 154: s_font_name = StringSetting::make(L"font.name").
update_font_name ==
    /\ lpc = "upd_name"
    /\ s_font_name' = store.name
    /\ loaded' = loaded \cup { store }
    /\ stack' = FreeNameStorage(stack)
    /\ lpc' = "upd_color"
    /\ UNCHANGED pureVars
    /\ UNCHANGED << s_custom_color, s_text_r, s_text_g, s_text_b, store, lmode, reloads,
                    target, registered, initResult, dc, fontLive, fontDesc,
                    fontOwner, calls, last, releases, selects >>

\* update_settings, line 155.
update_custom_color ==
    /\ lpc = "upd_color"
    /\ s_custom_color' = (store.customColor = 1)
    /\ lpc' = "upd_r"
    /\ UNCHANGED pureVars
    /\ UNCHANGED << s_font_name, s_text_r, s_text_g, s_text_b, store, loaded,
                    lmode, reloads, target, registered, initResult, dc, fontLive,
                    fontDesc, fontOwner, stack, calls, last, releases, selects >>

\* update_settings, line 156.
update_text_r ==
    /\ lpc = "upd_r"
    /\ s_text_r' = store.textR
    /\ lpc' = "upd_g"
    /\ UNCHANGED pureVars
    /\ UNCHANGED << s_font_name, s_custom_color, s_text_g, s_text_b, store,
                    loaded, lmode, reloads, target, registered, initResult, dc, fontLive,
                    fontDesc, fontOwner, stack, calls, last, releases, selects >>

\* update_settings, line 157.
update_text_g ==
    /\ lpc = "upd_g"
    /\ s_text_g' = store.textG
    /\ lpc' = "upd_b"
    /\ UNCHANGED pureVars
    /\ UNCHANGED << s_font_name, s_custom_color, s_text_r, s_text_b, store,
                    loaded, lmode, reloads, target, registered, initResult, dc, fontLive,
                    fontDesc, fontOwner, stack, calls, last, releases, selects >>

\* update_settings, line 158, and the return to the entry point that called
\* it: Wh_ModInit goes on to resolve the targets, Wh_ModSettingsChanged ends.
update_text_b ==
    /\ lpc = "upd_b"
    /\ s_text_b' = store.textB
    /\ lpc' = IF lmode = "init" THEN "hook_basic" ELSE "idle"
    /\ UNCHANGED pureVars
    /\ UNCHANGED << s_font_name, s_custom_color, s_text_r, s_text_g, store,
                    loaded, lmode, reloads, target, registered, initResult, dc, fontLive,
                    fontDesc, fontOwner, stack, calls, last, releases, selects >>

\* Wh_ModInit, lines 283-287: GetProcAddress(user32, "DrawTextW") returned
\* addr (NULL when it cannot be resolved); the hook is requested on it.
Wh_ModInit_hook_basic(addr) ==
    /\ lpc = "hook_basic"
    /\ target' = [target EXCEPT !["basic"] = addr]
    /\ registered' = registered \cup { [kind |-> "basic", addr |-> addr] }
    /\ lpc' = "hook_ext"
    /\ UNCHANGED pureVars
    /\ UNCHANGED << s_font_name, s_custom_color, s_text_r, s_text_g, s_text_b,
                    store, loaded, lmode, reloads, initResult, dc, fontLive, fontDesc,
                    fontOwner, stack, calls, last, releases, selects >>

\* Wh_ModInit, lines 289-295: the same for DrawTextExW, then return TRUE.
Wh_ModInit_hook_ext(addr) ==
    /\ lpc = "hook_ext"
    /\ target' = [target EXCEPT !["ext"] = addr]
    /\ registered' = registered \cup { [kind |-> "ext", addr |-> addr] }
    /\ initResult' = "TRUE"
    /\ lpc' = "idle"
    /\ UNCHANGED pureVars
    /\ UNCHANGED << s_font_name, s_custom_color, s_text_r, s_text_g, s_text_b,
                    store, loaded, lmode, reloads, dc, fontLive, fontDesc, fontOwner,
                    stack, calls, last, releases, selects >>

-----------------------------------------------------------------------------
(* The intercepted calls.  Each hook is one handler; it is cut into steps  *)
(* at its reads of the globals that update_settings writes, and at the     *)
(* call of the original, during which the host runs (and may re-enter).    *)

\* The new font never selected into the device context.
SelectObject_nothing(d, h) == d

\* SelectObject(hdc, h): a NULL handle selects nothing.
SelectObject(d, h) == IF h = NullHandle THEN d ELSE [d EXCEPT !.font = h]

\* The guard given the font read from the device context instead of the new
\* one (return {h_font, font}).
guard_handle_of_prior_font(f) == f.h_font

\* The handle the unique_hfont_t of hdc_update_font's result wraps
\* (return {h_new_font, font}), which ~raii passes to DeleteObject.
guard_handle(f) == f.h_new_font

\* The condition without its test of the background.
color_override_any_background(enabled, bk_color, window) ==
    enabled /\ is_explorer_file_view(window)

\* The condition of the color override, lines 249-250 and 269-270.
color_override(enabled, bk_color, window) ==
    enabled /\ ~is_light_background(bk_color) /\ is_explorer_file_view(window)

\* The original each hook delegates to, and the arguments it passes.
draw_textw_hook_delegate(f) ==
    [to |-> "basic", args |-> f.args]

\* The extended hook forwarding to the basic original, without the
\* DRAWTEXTPARAMS block.
draw_text_exw_hook_delegate_to_basic(f) ==
    [to |-> "basic", args |-> [f.args EXCEPT !.lpdtp = "n/a"]]

draw_text_exw_hook_delegate(f) ==
    [to |-> "ext", args |-> f.args]

\* Lines 254 / 274: the frame as the original starts executing, with the
\* device context d as the hook left it.
Delegate(f, d) ==
    [f EXCEPT !.delegated = Append(@, IF f.kind = "basic"
                                      THEN draw_textw_hook_delegate(f)
                                      ELSE draw_text_exw_hook_delegate(f)),
              !.colorAtDelegate = d.textColor,
              !.fontAtDelegate = d.font,
              !.pc = "in_original"]

\* The host, or an original DrawText in flight on thread t, calls a hooked
\* entry point on the thread's device context; the hook runs hdc_update_font,
\* lines 132-139, and change_font_in_struct, line 111: GetCurrentObject,
\* GetObjectW into the zeroed LOGFONTW (which fails and leaves it zeroed on a
\* handle that is no font; on a deleted handle either outcome is possible),
\* and the view taken of s_font_name.
draw_call(t, kind, ok) ==
    /\ HookActive(kind)
    /\ calls < MaxCalls
    /\ \/ ~InFlight(t)
       \/ AtPc(t, "in_original") /\ Len(stack[t]) < MaxDepth
    /\ calls' = calls + 1
    /\ LET f == NewFrame(calls + 1, kind, ArgsOf(kind, calls + 1), t)
           h == dc[t].font
       IN  /\ (h \in fontLive => ok)
           /\ stack' = [stack EXCEPT ![t] = Append(@,
                [f EXCEPT !.h_font = h,
                          !.got = ok,
                          !.read_desc = IF ok THEN fontDesc[h] ELSE ZeroDesc,
                          !.font = IF ok THEN fontDesc[h] ELSE ZeroDesc,
                          !.font_name = s_font_name,
                          !.read = @ \cup { "name" },
                          !.seen = [@ EXCEPT !.name = s_font_name],
                          !.pc = "change_font"])]
    /\ UNCHANGED pureVars
    /\ UNCHANGED << s_font_name, s_custom_color, s_text_r, s_text_g, s_text_b,
                    store, loaded, lpc, lmode, reloads, target, registered,
                    initResult, dc, fontLive, fontDesc, fontOwner, last,
                    releases, selects >>

\* change_font_in_struct, lines 114-127, on the units read through the view
\* (those of the name, unless the storage was freed meanwhile), then
\* hdc_update_font, lines 145-150: CreateFontIndirectW (ok: it succeeded)
\* and SelectObject.
hdc_update_font_create(t, ok, garbage) ==
    /\ AtPc(t, "change_font")
    /\ LET f == Top(t)
           units == IF garbage THEN Rep(Len(f.font_name), GarbageUnit)
                    ELSE f.font_name
           changed == change_font_in_struct(f.font.face, units)
           font == [f.font EXCEPT !.face = changed.face]
           h == IF ok THEN f.id ELSE NullHandle
       IN  /\ (garbage => f.nameFreed)
           /\ fontLive' = IF ok THEN fontLive \cup { h } ELSE fontLive
           /\ fontDesc' = IF ok THEN (h :> font) @@ fontDesc ELSE fontDesc
           /\ fontOwner' = IF ok THEN (h :> f.id) @@ fontOwner ELSE fontOwner
           /\ dc' = [dc EXCEPT ![t] = SelectObject(@, h)]
           /\ selects' = IF ok THEN selects \cup { [font |-> h, by |-> f.id] }
                         ELSE selects
           /\ stack' = SetTop(t,
                [f EXCEPT !.font = font,
                          !.diag = @ + changed.diag,
                          !.createCalls = @ + 1,
                          !.created = IF ok THEN @ \cup { h } ELSE @,
                          !.h_new_font = h,
                          !.pc = "check_color"])
    /\ UNCHANGED pureVars
    /\ UNCHANGED << s_font_name, s_custom_color, s_text_r, s_text_g, s_text_b,
                    store, loaded, lpc, lmode, reloads, target, registered,
                    initResult, calls, last, releases >>

\* Lines 249-250 / 269-270: is_custom_color_enabled() && !is_light_background
\* && is_explorer_file_view; when the condition fails the original is called.
check_color(t) ==
    /\ AtPc(t, "check_color")
    /\ LET f == Top(t)
           go == color_override(s_custom_color, dc[t].bkColor, dc[t].window)
           g == [f EXCEPT !.read = @ \cup { "enabled" },
                          !.seen = [@ EXCEPT !.enabled = s_custom_color],
                          !.pc = "read_r"]
       IN  stack' = SetTop(t, IF go THEN g ELSE Delegate(g, dc[t]))
    /\ UNCHANGED pureVars
    /\ UNCHANGED << s_font_name, s_custom_color, s_text_r, s_text_g, s_text_b,
                    store, loaded, lpc, lmode, reloads, target, registered,
                    initResult, dc, fontLive, fontDesc, fontOwner, calls, last,
                    releases, selects >>

\* get_custom_text_color, line 167.
read_text_r(t) ==
    /\ AtPc(t, "read_r")
    /\ stack' = SetTop(t,
            [Top(t) EXCEPT !.read = @ \cup { "r" },
                           !.seen = [@ EXCEPT !.r = s_text_r],
                           !.pc = "read_g"])
    /\ UNCHANGED pureVars
    /\ UNCHANGED << s_font_name, s_custom_color, s_text_r, s_text_g, s_text_b,
                    store, loaded, lpc, lmode, reloads, target, registered,
                    initResult, dc, fontLive, fontDesc, fontOwner, calls, last,
                    releases, selects >>

\* get_custom_text_color, line 168.
read_text_g(t) ==
    /\ AtPc(t, "read_g")
    /\ stack' = SetTop(t,
            [Top(t) EXCEPT !.read = @ \cup { "g" },
                           !.seen = [@ EXCEPT !.g = s_text_g],
                           !.pc = "read_b"])
    /\ UNCHANGED pureVars
    /\ UNCHANGED << s_font_name, s_custom_color, s_text_r, s_text_g, s_text_b,
                    store, loaded, lpc, lmode, reloads, target, registered,
                    initResult, dc, fontLive, fontDesc, fontOwner, calls, last,
                    releases, selects >>

\* get_custom_text_color, lines 169-174, SetTextColor, line 251 / 271, and
\* the call of the original, line 254 / 274.
read_text_b_set_color(t) ==
    /\ AtPc(t, "read_b")
    /\ LET f == Top(t)
           color == get_custom_text_color(f.seen.r, f.seen.g, s_text_b)
           d == [dc[t] EXCEPT !.textColor = color]
       IN  /\ dc' = [dc EXCEPT ![t] = d]
           /\ stack' = SetTop(t,
                Delegate([f EXCEPT !.read = @ \cup { "b" },
                                   !.seen = [@ EXCEPT !.b = s_text_b],
                                   !.colorSet = TRUE], d))
    /\ UNCHANGED pureVars
    /\ UNCHANGED << s_font_name, s_custom_color, s_text_r, s_text_g, s_text_b,
                    store, loaded, lpc, lmode, reloads, target, registered,
                    initResult, fontLive, fontDesc, fontOwner, calls, last,
                    releases, selects >>

\* What is remembered of a call that has returned.
Summary(f) ==
    [ id |-> f.id, kind |-> f.kind, args |-> f.args, delegated |-> f.delegated,
      origRet |-> f.origRet, ret |-> f.ret, diag |-> f.diag,
      tooLong |-> Len(f.font_name) > MaxNameFit, colorSet |-> f.colorSet,
      createCalls |-> f.createCalls, created |-> f.created,
      relCalls |-> f.relCalls, released |-> f.released,
      relArgs |-> f.relArgs, entryFont |-> f.entryFont ]

\* The original returns r and the hook returns it: ~raii runs DeleteObject on
\* the handle it wraps (lines 95, 108), and the frame is left.
original_return(t, r) ==
    /\ AtPc(t, "in_original")
    /\ LET f == Top(t)
           h == guard_handle(f)
       IN  /\ fontLive' = fontLive \ { h }
           /\ releases' = IF h \in fontLive
                          THEN releases \cup { [font |-> h, by |-> f.id] }
                          ELSE releases
           /\ last' = [last EXCEPT ![t] =
                << Summary([f EXCEPT
                             !.origRet = Append(@, r),
                             !.ret = Append(@, r),
                             !.relCalls = @ + 1,
                             !.relArgs = Append(@, h),
                             !.released = IF h \in fontLive THEN @ \cup { h } ELSE @,
                             !.pc = "returned"]) >>]
           /\ stack' = [stack EXCEPT ![t] = SubSeq(@, 1, Len(@) - 1)]
    /\ UNCHANGED pureVars
    /\ UNCHANGED << s_font_name, s_custom_color, s_text_r, s_text_g, s_text_b,
                    store, loaded, lpc, lmode, reloads, target, registered,
                    initResult, dc, fontDesc, fontOwner, calls, selects >>

-----------------------------------------------------------------------------
(* The main specification.                                                 *)

FnIdle == fn = [op |-> "none", in |-> << >>, out |-> << >>]
GuardIdle ==
    /\ guards = [g \in 1..MaxGuards |-> [state |-> "none", handle |-> NullHandle]]
    /\ relCount = [h \in 1..MaxGuards |-> 0]

\* The surfaces the host's threads draw on: thread 1 paints a dark window (the
\* file list or another one), thread 2 a light list.
Surfaces == { s \in [Threads -> DcKinds] :
                s[1] \in { DcDarkList, DcDarkOther } /\ s[2] = DcLightList }

\* The process before the mod is loaded: the globals as initialized at lines
\* 83-87, the settings store holding the defaults of lines 61-71, the host's
\* device contexts with the host's fonts selected.
ModInit ==
    /\ s_font_name = << >>
    /\ s_custom_color = TRUE
    /\ s_text_r = 255
    /\ s_text_g = 255
    /\ s_text_b = 255
    /\ store = CfgDefault
    /\ loaded = {}
    /\ lpc = "start"
    /\ lmode = "init"
    /\ reloads = 0
    /\ target = [k \in Kinds |-> NullHandle]
    /\ registered = {}
    /\ initResult = "none"
    /\ \E surface \in Surfaces :
          dc = [t \in Threads |->
                  [font |-> StockFont(t), textColor |-> HostTextColor,
                   bkColor |-> surface[t].bkColor, window |-> surface[t].window]]
    /\ fontLive = { StockFont(t) : t \in Threads }
    /\ fontDesc = [h \in { StockFont(t) : t \in Threads } |-> StockDesc]
    /\ fontOwner = [h \in { StockFont(t) : t \in Threads } |-> 0]
    /\ stack = [t \in Threads |-> << >>]
    /\ calls = 0
    /\ last = [t \in Threads |-> << >>]
    /\ releases = {}
    /\ selects = {}

Init == ModInit /\ FnIdle /\ GuardIdle

Next ==
    \/ Wh_ModInit
    \/ \E c \in Configs \ { store } : Wh_ModSettingsChanged(c)
    \/ update_font_name
    \/ update_custom_color
    \/ update_text_r
    \/ update_text_g
    \/ update_text_b
    \/ \E a \in { NullHandle, AddrOf("basic") } : Wh_ModInit_hook_basic(a)
    \/ \E a \in { NullHandle, AddrOf("ext") } : Wh_ModInit_hook_ext(a)
    \/ \E t \in Threads, k \in Kinds, ok \in BOOLEAN : draw_call(t, k, ok)
    \/ \E t \in Threads, ok \in BOOLEAN, garbage \in BOOLEAN :
          hdc_update_font_create(t, ok, garbage)
    \/ \E t \in Threads : check_color(t)
    \/ \E t \in Threads : read_text_r(t)
    \/ \E t \in Threads : read_text_g(t)
    \/ \E t \in Threads : read_text_b_set_color(t)
    \/ \E t \in Threads, r \in RetVals : original_return(t, r)

Spec == Init /\ [][Next]_vars

-----------------------------------------------------------------------------
(* SpecFn: one helper applied to one enumerated input per behaviour.       *)

\* Face names a font read from a device context can carry: 0..31 units.
PriorNames == { Rep(n, 80) : n \in 0..(LF_FACESIZE - 1) } \cup { SegoeVariableName }

\* Names the user can configure.
OverrideNames == { NoneName, ArialName } \cup { Rep(n, 79) : n \in 0..MaxNameLen }

\* Window chains of up to MaxChain windows.
Chains == UNION { [1..k -> WindowClasses] : k \in 0..MaxChain }

apply_change_font_in_struct(prior, name) ==
    /\ fn.op = "none"
    /\ fn' = [op |-> "change_font_in_struct",
              in |-> [face |-> PadFace(prior), name |-> name],
              out |-> change_font_in_struct(PadFace(prior), name)]
    /\ UNCHANGED modVars
    /\ UNCHANGED << guards, relCount >>

apply_is_explorer_file_view(chain) ==
    /\ fn.op = "none"
    /\ fn' = [op |-> "is_explorer_file_view", in |-> chain,
              out |-> is_explorer_file_view(chain)]
    /\ UNCHANGED modVars
    /\ UNCHANGED << guards, relCount >>

\* Channel values of the background colors enumerated: every 16th value and
\* the values around the threshold.
BkChannels == { 16 * k : k \in 0..15 } \cup { 127, 128, 129, 255 }

\* GetBkColor returned RGB(r, g, b).
apply_is_light_background(r, g, b) ==
    /\ fn.op = "none"
    /\ fn' = [op |-> "is_light_background", in |-> [r |-> r, g |-> g, b |-> b],
              out |-> is_light_background(RGB(r, g, b))]
    /\ UNCHANGED modVars
    /\ UNCHANGED << guards, relCount >>

\* Values of one channel setting within 0..255, and the multiples of 256 by
\* which a second setting differs from it (Wh_GetIntSetting returns any int).
TextChannels == { 0, 44, 255 }
ChannelShifts == { 0 - 256, 0, 256 }

\* get_custom_text_color under the settings (r, g, b) and under the settings
\* (r + dr, g + dg, b + db).
apply_get_custom_text_color(r, g, b, dr, dg, db) ==
    /\ fn.op = "none"
    /\ fn' = [op |-> "get_custom_text_color",
              in |-> [r |-> r, g |-> g, b |-> b,
                      r2 |-> r + dr, g2 |-> g + dg, b2 |-> b + db],
              out |-> [color |-> get_custom_text_color(r, g, b),
                       color2 |-> get_custom_text_color(r + dr, g + dg, b + db)]]
    /\ UNCHANGED modVars
    /\ UNCHANGED << guards, relCount >>

NextFn ==
    \/ \E prior \in PriorNames, name \in OverrideNames :
          apply_change_font_in_struct(prior, name)
    \/ \E chain \in Chains : apply_is_explorer_file_view(chain)
    \/ \E r \in BkChannels, g \in BkChannels, b \in BkChannels :
          apply_is_light_background(r, g, b)
    \/ \E r \in TextChannels, g \in TextChannels, b \in TextChannels,
          dr \in ChannelShifts, dg \in ChannelShifts, db \in ChannelShifts :
          apply_get_custom_text_color(r, g, b, dr, dg, db)

SpecFn == Init /\ [][NextFn]_vars

-----------------------------------------------------------------------------
(* SpecGuard: the operations the class template util::raii permits on      *)
(* objects of type unique_hfont_t.  Guard g, when constructed, is given    *)
(* the fresh handle g.                                                     *)

\* raii(T handle), line 94.
raii_construct(g) ==
    /\ guards[g].state = "none"
    /\ guards' = [guards EXCEPT ![g] = [state |-> "alive", handle |-> g]]
    /\ UNCHANGED << relCount, fn >>
    /\ UNCHANGED modVars

\* The copy constructor, which the class declares implicitly: it deletes
\* only raii() (line 93) and declares no move operation (line 97).
raii_copy_construct(g, from) ==
    /\ guards[g].state = "none"
    /\ guards[from].state = "alive"
    /\ guards' = [guards EXCEPT ![g] =
                    [state |-> "alive", handle |-> guards[from].handle]]
    /\ UNCHANGED << relCount, fn >>
    /\ UNCHANGED modVars

\* The implicitly declared copy assignment: m_handle is overwritten.
raii_copy_assign(g, from) ==
    /\ g # from
    /\ guards[g].state = "alive"
    /\ guards[from].state = "alive"
    /\ guards' = [guards EXCEPT ![g].handle = guards[from].handle]
    /\ UNCHANGED << relCount, fn >>
    /\ UNCHANGED modVars

\* ~raii(), line 95: Fn(m_handle).
raii_destroy(g) ==
    /\ guards[g].state = "alive"
    /\ relCount[guards[g].handle] < MaxRelease
    /\ guards' = [guards EXCEPT ![g].state = "dead"]
    /\ relCount' = [relCount EXCEPT ![guards[g].handle] = @ + 1]
    /\ UNCHANGED fn
    /\ UNCHANGED modVars

NextGuard ==
    \/ \E g \in 1..MaxGuards : raii_construct(g)
    \/ \E g \in 1..MaxGuards, from \in 1..MaxGuards : raii_copy_construct(g, from)
    \/ \E g \in 1..MaxGuards, from \in 1..MaxGuards : raii_copy_assign(g, from)
    \/ \E g \in 1..MaxGuards : raii_destroy(g)

SpecGuard == Init /\ [][NextGuard]_vars

-----------------------------------------------------------------------------
(* Claims.                                                                 *)

Returned(t) == Len(last[t]) > 0

\* C2: for every face name read from the device context (0..31 units) and
\* every configured name of at most 31 units other than "None", after
\* change_font_in_struct the 32-unit field is the configured name followed by
\* zero units only; nothing of the prior name is left.
C2_FaceIsNameZeroPadded ==
    ( /\ fn.op = "change_font_in_struct"
      /\ fn.in.name # NoneName
      /\ Len(fn.in.name) <= 31 )
    => fn.out.face = [i \in 1..32 |->
                        IF i <= Len(fn.in.name) THEN fn.in.name[i] ELSE 0]

\* The values of {face name, color-enabled flag, red, green, blue} that the
\* call f has read so far are those of configuration c.
C3_SeenOf(f, c) ==
    /\ "name" \in f.read => f.seen.name = c.name
    /\ "enabled" \in f.read => f.seen.enabled = (c.customColor = 1)
    /\ "r" \in f.read => f.seen.r = c.textR
    /\ "g" \in f.read => f.seen.g = c.textG
    /\ "b" \in f.read => f.seen.b = c.textB

\* C3: every call, at every point of its run, has read values of {face name,
\* color-enabled flag, red, green, blue} that all belong to one settings
\* snapshot: a replacement of the configuration is seen whole or not at all.
C3_NoHalfUpdatedConfiguration ==
    \A t \in Threads : \A i \in DOMAIN stack[t] :
        \E c \in loaded : C3_SeenOf(stack[t][i], c)

\* C4: if DrawTextW or DrawTextExW cannot be resolved, Wh_ModInit returns
\* FALSE and requests no hook at a null address; it returns TRUE (installed)
\* only when both targets were resolved.
C4_InitFailsOnUnresolvedTarget ==
    /\ \A r \in registered : r.addr # NullHandle
    /\ initResult = "TRUE" => \A k \in Kinds : target[k] # NullHandle

\* C9: util::raii does not support copying: whatever operations the type
\* permits, a handle is held by at most one live guard and the release
\* operation is invoked on it at most once.
C9_SingleHolderSingleRelease ==
    \A h \in DOMAIN relCount :
        /\ Cardinality({ g \in DOMAIN guards :
                           guards[g].state = "alive" /\ guards[g].handle = h }) <= 1
        /\ relCount[h] <= 1

\* C10: is_explorer_file_view is true exactly when the device context has a
\* window and either that window's class is one of the two list classes or
\* one of its ancestors at parent levels 1..3 has the shell-view class; a
\* match only at level 4 or beyond gives false.
C10_FileViewWithinThreeParents ==
    fn.op = "is_explorer_file_view" =>
        fn.out = ( /\ Len(fn.in) >= 1
                   /\ \/ fn.in[1] \in { "DirectUIHWND", "SysListView32" }
                      \/ \E level \in 1..3 :
                            /\ level + 1 <= Len(fn.in)
                            /\ fn.in[level + 1] = "SHELLDLL_DefView" )

\* C10 witness: the shell view is the 4th-level ancestor only, and the
\* classification is false.
C10_Witness ==
    /\ fn.op = "is_explorer_file_view"
    /\ Len(fn.in) = 5
    /\ \A i \in 1..4 : fn.in[i] = "CabinetWClass"
    /\ fn.in[5] = "SHELLDLL_DefView"
    /\ fn.out = FALSE

\* Fonts the hooks created that still exist.
LiveHookFonts == { h \in fontLive : fontOwner[h] # 0 }
InFlightIds ==
    UNION { { stack[t][i].id : i \in DOMAIN stack[t] } : t \in Threads }

C6_DelegatesOnceSameEntryVerbatim ==
    /\ \A t \in Threads : Returned(t) =>
          LET s == last[t][1]
          IN  /\ s.delegated = << [to |-> s.kind, args |-> ArgsOf(s.kind, s.id)] >>
              /\ Len(s.origRet) = 1
              /\ s.ret = s.origRet
    /\ \A t \in Threads : \A i \in DOMAIN stack[t] :
          LET f == stack[t][i]
          IN  f.delegated = IF f.pc = "in_original"
                            THEN << [to |-> f.kind, args |-> ArgsOf(f.kind, f.id)] >>
                            ELSE << >>

\* C6 witness: an extended call nested in a basic one has returned the 0 its
\* original returned, while the basic original is still running.
C6_Witness ==
    \E t \in Threads :
        /\ Returned(t)
        /\ last[t][1].kind = "ext"
        /\ last[t][1].ret = << 0 >>
        /\ AtPc(t, "in_original")
        /\ Top(t).kind = "basic"
        /\ Top(t).id < last[t][1].id

\* C7: with a configured name longer than 31 units the face-name field stays
\* as read from the device context, exactly one diagnostic is emitted for the
\* call, and the call goes on to create a font from that description, select
\* it and release it when it returns.
C7_TooLongNameKeepsFaceOneDiagnostic ==
    /\ \A t \in Threads : \A i \in DOMAIN stack[t] :
          LET f == stack[t][i]
          IN  (Len(f.font_name) > 31 /\ f.pc # "change_font") =>
                /\ f.font.face = f.read_desc.face
                /\ f.diag = 1
                /\ f.createCalls = 1
                /\ f.h_new_font # NullHandle =>
                      /\ f.created = { f.h_new_font }
                      /\ fontDesc[f.h_new_font] = f.read_desc
                      /\ [font |-> f.h_new_font, by |-> f.id] \in selects
                      /\ f.h_new_font \in fontLive
    /\ \A t \in Threads :
          (Returned(t) /\ last[t][1].tooLong) =>
                /\ last[t][1].diag = 1
                /\ last[t][1].createCalls = 1
                /\ last[t][1].relCalls = 1
                /\ last[t][1].released = last[t][1].created

\* C7 witness: a call made under a 32-unit name has returned, with its font
\* made and released.
C7_Witness ==
    \E t \in Threads :
        /\ Returned(t)
        /\ last[t][1].tooLong
        /\ last[t][1].diag = 1
        /\ Cardinality(last[t][1].created) = 1
        /\ last[t][1].released = last[t][1].created

\* C8: a font a call made is released by that call only, and no call has,
\* selected into its device context, a font another call made.
C8_FontsNeverSharedAcrossCalls ==
    /\ \A r \in releases : fontOwner[r.font] = r.by
    /\ \A t \in Threads : \A i \in DOMAIN stack[t] :
          fontOwner[dc[t].font] \in { 0, stack[t][i].id }

-----------------------------------------------------------------------------
(* Claims on the color helpers.                                            *)

\* C11: for every background color with channels R, G, B in 0..255,
\* is_light_background is true exactly when (299*R + 587*G + 114*B) / 1000,
\* in integer division, is strictly greater than 128: white is light, black
\* is dark, and (128,128,128), whose luminance is exactly 128, is not light.
C11_LightIffLuminanceAbove128 ==
    fn.op = "is_light_background" =>
        /\ fn.out = ((299 * fn.in.r + 587 * fn.in.g + 114 * fn.in.b) \div 1000 > 128)
        /\ (fn.in = [r |-> 255, g |-> 255, b |-> 255]) => (fn.out = TRUE)
        /\ (fn.in = [r |-> 0, g |-> 0, b |-> 0]) => (fn.out = FALSE)
        /\ (fn.in = [r |-> 128, g |-> 128, b |-> 128]) => (fn.out = FALSE)

\* C11 witness: the color of luminance exactly 128 was classified not light.
C11_Witness ==
    /\ fn.op = "is_light_background"
    /\ fn.in = [r |-> 128, g |-> 128, b |-> 128]
    /\ fn.out = FALSE

\* C12: for every configured triple, values above 255 and negative ones
\* included, get_custom_text_color composes the color 0x00BBGGRR from the low
\* 8 bits of each channel only, so two settings that agree modulo 256 in
\* every channel yield the same color.
C12_ColorFromLowEightBits ==
    fn.op = "get_custom_text_color" =>
        LET byte(x) == CHOOSE v \in 0..255 : \E k \in (0 - 2)..2 : x = v + 256 * k
        IN  /\ fn.out.color = byte(fn.in.r) + byte(fn.in.g) * 256
                                + byte(fn.in.b) * 65536
            /\ fn.out.color2 = byte(fn.in.r2) + byte(fn.in.g2) * 256
                                 + byte(fn.in.b2) * 65536
            /\ fn.out.color2 = fn.out.color

\* C12 witness: red 300 and red 44 (and a negative green, an oversized blue)
\* gave the same color, whose red byte is 44.
C12_Witness ==
    /\ fn.op = "get_custom_text_color"
    /\ fn.in.r = 44 /\ fn.in.r2 = 300
    /\ fn.in.g = 255 /\ fn.in.g2 = 0 - 1
    /\ fn.in.b = 0 /\ fn.in.b2 = 256
    /\ fn.out.color = 44 + 255 * 256
    /\ fn.out.color2 = fn.out.color

-----------------------------------------------------------------------------
(* Claims on the fonts and colors of the intercepted calls.                *)

\* C13: the layer releases only fonts it created: every release is made by
\* the call that created the font, a call never releases the font that was
\* selected into the device context when it began, and the host's fonts
\* exist throughout.
C13_OnlyOwnFontsReleased ==
    /\ \A r \in releases : fontOwner[r.font] = r.by
    /\ \A t \in Threads : StockFont(t) \in fontLive
    /\ \A t \in Threads : Returned(t) =>
          /\ last[t][1].entryFont \notin last[t][1].released
          /\ last[t][1].released \subseteq last[t][1].created
          /\ \A i \in DOMAIN last[t][1].relArgs :
                last[t][1].relArgs[i] # last[t][1].entryFont

\* C13 witness: a nested call that began with the outer call's font selected
\* has returned, having released its own font; the outer call's font and the
\* host's font still exist.
C13_Witness ==
    \E t \in Threads :
        /\ AtPc(t, "in_original")
        /\ Returned(t)
        /\ last[t][1].id > Top(t).id
        /\ last[t][1].entryFont = Top(t).h_new_font
        /\ last[t][1].created # {}
        /\ last[t][1].released = last[t][1].created
        /\ Top(t).h_new_font \in fontLive
        /\ Top(t).entryFont = StockFont(t)
        /\ StockFont(t) \in fontLive

\* C14: the description a call constructs its font from equals that of the
\* font selected into the device context at the call's entry in height and
\* weight (the attributes other than the face name), and in the face name as
\* well when the configured name is "None".
C14_DescriptionPassedThrough ==
    \A t \in Threads : \A i \in DOMAIN stack[t] :
        LET f == stack[t][i]
            e == fontDesc[f.entryFont]
        IN  f.pc # "change_font" =>
              /\ f.font.height = e.height
              /\ f.font.weight = e.weight
              /\ (f.font_name = NoneName) => (f.font.face = e.face)

\* C15: in each call the font is created and selected before the color
\* decision, the color decision is made before the original is invoked, and
\* the font is released only after the original has returned.
C15_CreateThenColorThenOriginalThenRelease ==
    /\ \A t \in Threads : \A i \in DOMAIN stack[t] :
          LET f == stack[t][i]
              h == f.h_new_font
          IN  /\ f.relCalls = 0
              /\ f.pc = "change_font" =>
                    /\ f.createCalls = 0
                    /\ "enabled" \notin f.read
                    /\ ~f.colorSet
                    /\ f.delegated = << >>
              /\ f.pc \in { "check_color", "read_r", "read_g", "read_b" } =>
                    /\ f.createCalls = 1
                    /\ f.delegated = << >>
                    /\ ~f.colorSet
                    /\ h # NullHandle => (dc[t].font = h /\ h \in fontLive)
              /\ f.pc = "in_original" =>
                    /\ f.createCalls = 1
                    /\ "enabled" \in f.read
                    /\ Len(f.delegated) = 1
                    /\ f.origRet = << >>
                    /\ h # NullHandle =>
                          /\ f.fontAtDelegate = h
                          /\ h \in fontLive
                          /\ \A r \in releases : r.font # h
    /\ \A t \in Threads : Returned(t) =>
          /\ last[t][1].relCalls = 1
          /\ Len(last[t][1].origRet) = 1

\* C15 witness: an original is running with the call's font selected and
\* existing and the color set, and an earlier call has returned and released.
C15_Witness ==
    \E t \in Threads :
        /\ AtPc(t, "in_original")
        /\ Top(t).colorSet
        /\ Top(t).h_new_font # NullHandle
        /\ dc[t].font = Top(t).h_new_font
        /\ Top(t).h_new_font \in fontLive
        /\ Returned(t)
        /\ last[t][1].released # {}

\* C16: when CreateFontIndirectW fails, the guard still calls DeleteObject
\* exactly once, on the null handle, which releases no font, and the call
\* still delegates to the original and returns its value.
C16_NullFontReleasedAsNoOp ==
    /\ NullHandle \notin fontLive
    /\ \A t \in Threads : (Returned(t) /\ last[t][1].created = {}) =>
          /\ last[t][1].createCalls = 1
          /\ last[t][1].relCalls = 1
          /\ last[t][1].relArgs = << NullHandle >>
          /\ last[t][1].released = {}
          /\ \A r \in releases : r.by # last[t][1].id
          /\ Len(last[t][1].delegated) = 1
          /\ last[t][1].ret = last[t][1].origRet
          /\ Len(last[t][1].ret) = 1

\* C16 witness: a call whose font construction failed has returned after
\* delegating, with its one release made on the null handle.
C16_Witness ==
    \E t \in Threads :
        /\ Returned(t)
        /\ last[t][1].created = {}
        /\ last[t][1].createCalls = 1
        /\ last[t][1].relArgs = << NullHandle >>
        /\ Len(last[t][1].delegated) = 1
        /\ fontLive = { StockFont(u) : u \in Threads }

\* C17: once a nested intercepted call has been made on a device context,
\* whenever an original is executing on it - the outer one after the nested
\* call returned included - the font selected into it exists (created and
\* not released).
C17_NestedCallsLeaveLiveFontSelected ==
    \A t \in Threads :
        ( /\ AtPc(t, "in_original")
          /\ \/ Len(stack[t]) >= 2
             \/ Returned(t) /\ last[t][1].id > stack[t][1].id )
        => dc[t].font \in fontLive

\* C18: after an intercepted call has returned, the font selected into the
\* device context is not one the layer has released; the font each call reads
\* at its start (GetCurrentObject) exists.
C18_SelectedFontNeverReleased ==
    /\ \A t \in Threads : Returned(t) => dc[t].font \in fontLive
    /\ \A t \in Threads : \A i \in DOMAIN stack[t] :
          stack[t][i].h_font \in fontLive

\* C19: a call in which the override conditions do not hold is delegated with
\* the text color the host set, never with a color an earlier intercepted
\* call installed.
C19_ColorOverrideDoesNotOutliveCall ==
    \A t \in Threads : \A i \in DOMAIN stack[t] :
        LET f == stack[t][i]
        IN  (f.pc = "in_original" /\ ~f.colorSet) =>
               f.colorAtDelegate = HostTextColor

\* C20: no call reads the configured face name through its view after a
\* reload has replaced and freed the storage the view refers to.
C20_NameStorageNotFreedWhileRead ==
    \A t \in Threads : \A i \in DOMAIN stack[t] :
        stack[t][i].pc = "change_font" => ~stack[t][i].nameFreed

=============================================================================
